---- MODULE Spec2Model ----
(***************************************************************************)
(* Klippy: clipboard history manager (src/src/main.rs).                    *)
(*                                                                         *)
(* The model covers the history policy of ClipboardManager: add_entry      *)
(* (dedup, insertion at the front, eviction of non-pinned entries),        *)
(* check_clipboard (the watcher), copy_to_clipboard, remove_entry,         *)
(* toggle_pin, the "Clear Unpinned" and settings "Save" handlers of        *)
(* update, save_data and the load performed by new.                        *)
(*                                                                         *)
(* Strings are sequences of one-character strings.  Vec indices are the    *)
(* 0-based indices of the source; position i of the Vec is element i + 1   *)
(* of the TLA+ sequence.                                                   *)
(***************************************************************************)
EXTENDS Integers, Sequences, FiniteSets, TLC

(***************************************************************************)
(* Bounds of the exploration.                                              *)
(***************************************************************************)
\* Largest capacity the settings and the data file of a first start supply.
\* The settings widget offers 10..=500 (main.rs:449) and the data file can
\* hold any capacity; the model explores the capacities 1..MaxCap, and the
\* default capacity, which no history of the model fills.
MaxCap == 2
\* The clock stops at MaxClock: at most MaxClock entries are ever created.
MaxClock == 4
\* The count poll_adds stops at MaxPollAdds.
MaxPollAdds == 2

\* The histories drawn for the filter have at most MaxViewEntries entries.
MaxViewEntries == 3
\* The contents drawn for the preview have at most MaxNarrow ASCII
\* characters and at most MaxWide wider ones.
MaxNarrow == 52
MaxWide == 27

\* ClipboardManager::default: max_entries: 50
DefaultMaxEntries == 50
\* ClipboardEntry::preview: content.len() > 50
PreviewLimit == 50
\* ClipboardEntry::preview: &self.content[..47]
PreviewKeep == 47

CapRange == 1..MaxCap

(***************************************************************************)
(* Text values.                                                            *)
(***************************************************************************)
EmptyString == << >>

\* The clipboard texts explored: the empty string, a whitespace-only text,
\* and non-blank texts, one of them with leading whitespace.
Contents ==
  { EmptyString, <<" ">>, <<"a">>, <<" ", "a">>, <<"b">> }

\* char::is_whitespace on the characters used here.
is_whitespace(ch) == ch \in {" ", "\t", "\n"}

RECURSIVE trim_start(_)
trim_start(s) ==
  IF s # << >> /\ is_whitespace(Head(s)) THEN trim_start(Tail(s)) ELSE s

RECURSIVE trim_end(_)
trim_end(s) ==
  IF s # << >> /\ is_whitespace(s[Len(s)])
  THEN trim_end(SubSeq(s, 1, Len(s) - 1))
  ELSE s

\* str::trim
trim(s) == trim_end(trim_start(s))

\* str::is_empty
is_empty(s) == Len(s) = 0

(***************************************************************************)
(* Characters beyond ASCII are named by their code point.  A character     *)
(* takes len_utf8 bytes in a String.                                       *)
(***************************************************************************)
\* char::len_utf8
len_utf8(ch) ==
  CASE ch = "U+00E9" -> 2
    [] ch = "U+20AC" -> 3
    [] ch = "U+1F600" -> 4
    [] OTHER -> 1

\* String::len: the length in bytes.
RECURSIVE byte_len(_)
byte_len(s) == IF s = << >> THEN 0 ELSE len_utf8(Head(s)) + byte_len(Tail(s))

\* The characters of s that lie wholly before byte offset n.
RECURSIVE chars_before(_, _)
chars_before(s, n) ==
  IF s = << >> \/ len_utf8(Head(s)) > n THEN << >>
  ELSE << Head(s) >> \o chars_before(Tail(s), n - len_utf8(Head(s)))

\* str::is_char_boundary
is_char_boundary(s, n) ==
  n <= byte_len(s) /\ byte_len(chars_before(s, n)) = n

\* char::to_lowercase on the letters used here.
to_lowercase_char(ch) ==
  CASE ch = "H" -> "h"
    [] ch = "E" -> "e"
    [] ch = "L" -> "l"
    [] ch = "O" -> "o"
    [] ch = "W" -> "w"
    [] OTHER -> ch

\* str::to_lowercase
to_lowercase(s) == [ i \in 1..Len(s) |-> to_lowercase_char(s[i]) ]

\* str::contains
contains(haystack, needle) ==
  \E start \in 0..(Len(haystack) - Len(needle)) :
    SubSeq(haystack, start + 1, start + Len(needle)) = needle

\* The contents and the search terms of the histories drawn for the filter.
SearchContents ==
  { <<"H", "e", "l", "l", "o", " ", "W", "o", "r", "l", "d">>,
    <<"f", "o", "o">>,
    <<"H", "E", "L", "L", "O">>,
    <<"h", "o", "w">> }

Queries ==
  { EmptyString,
    <<"h", "e", "l", "l", "o">>,
    <<"L", "O">>,
    <<"o", " ", "w">>,
    <<"h", "w">>,
    <<"o", "o", "o", "o", "o", "o">> }

\* n times the character ch.
Repeat(ch, n) == [ i \in 1..n |-> ch ]

\* The contents drawn for the preview: up to MaxNarrow ASCII characters
\* followed by up to MaxWide characters of 2, 3 or 4 bytes.
PreviewContents ==
  { Repeat("x", n) \o Repeat(ch, m) :
      n \in 0..MaxNarrow, m \in 0..MaxWide,
      ch \in {"U+00E9", "U+20AC", "U+1F600"} }

(***************************************************************************)
(* State.                                                                  *)
(***************************************************************************)
VARIABLES
  entries,            \* ClipboardManager.entries: Vec<ClipboardEntry>
  max_entries,        \* ClipboardManager.max_entries
  current_clipboard,  \* ClipboardManager.current_clipboard
  clipboard_ctx,      \* ClipboardManager.clipboard_ctx is Some (TRUE) or None
  os_clipboard,       \* what the system clipboard holds
  disk,               \* the data file of save_path
  now,                \* Local::now()
  last,               \* the last operation and the state it started from
  poll_adds,          \* calls of add_entry made by check_clipboard for the
                      \* value the system clipboard holds, since it holds it
  copied,             \* the content of the last successful copy_to_clipboard
                      \* of this run, while the system clipboard still holds
                      \* it; NoContent otherwise
  search_term,        \* ClipboardManager.search_term
  view                \* the rows the central panel of update drew last

vars ==
  << entries, max_entries, current_clipboard, clipboard_ctx, os_clipboard,
     disk, now, last, poll_adds, copied, search_term, view >>

\* The system clipboard holds a text or something that is not text.
NonText == << "NonText" >>
OsValues == Contents \cup {NonText}

\* The data file: whether it exists, and the text it holds.  A file is
\* absent, truncated (unreadable as a ClipboardManager), or holds the text
\* written by save_data.
File(data) == [exists |-> TRUE, data |-> data]
Absent == [exists |-> FALSE, data |-> << >>]
Corrupt == File(<< 1, <<"a">> >>)

(***************************************************************************)
(* ClipboardEntry.                                                         *)
(***************************************************************************)
\* A variant of ClipboardEntry::new that creates the entry pinned.
ClipboardEntry_new_pinned(content, time) ==
  [content |-> content, timestamp |-> time, pinned |-> TRUE]

\* ClipboardEntry::new
ClipboardEntry_new(content, time) ==
  [content |-> content, timestamp |-> time, pinned |-> FALSE]

\* The outcome of ClipboardEntry::preview: a text, or a panic of the slice.
Text(s) == [panicked |-> FALSE, text |-> s]
Panic == [panicked |-> TRUE, text |-> << >>]

\* ClipboardEntry::preview
preview(content) ==
  IF byte_len(content) > PreviewLimit
  THEN IF is_char_boundary(content, PreviewKeep)
       THEN Text(chars_before(content, PreviewKeep) \o <<".", ".", ".">>)
       ELSE Panic
  ELSE Text(content)

(***************************************************************************)
(* filtered_entries and the rows of the central panel.                     *)
(***************************************************************************)
\* A variant of matches that compares the content as it is with the
\* lowercased search term.
matches_content_as_is(content, term) ==
  is_empty(term) \/ contains(content, to_lowercase(term))

\* The filter closure of filtered_entries.
matches(content, term) ==
  is_empty(term) \/ contains(to_lowercase(content), to_lowercase(term))

\* filtered_entries: the 0-based indices of the matching entries, in order.
RECURSIVE filtered_from(_, _, _)
filtered_from(es, term, idx) ==
  IF idx >= Len(es) THEN << >>
  ELSE (IF matches(es[idx + 1].content, term) THEN << idx >> ELSE << >>)
         \o filtered_from(es, term, idx + 1)

filtered_entries(es, term) == filtered_from(es, term, 0)

\* The rows drawn: the filtered indices and the preview of each.
rows(es, term) ==
  LET filtered == filtered_entries(es, term)
  IN  [ drawn |-> TRUE,
        filtered |-> filtered,
        previews |-> [ k \in 1..Len(filtered) |->
                         preview(es[filtered[k] + 1].content) ] ]

\* Nothing drawn yet.
NoView == [ drawn |-> FALSE, filtered |-> << >>, previews |-> << >> ]

(***************************************************************************)
(* Persistence: serde_json::to_string / from_str of ClipboardManager.      *)
(* Only entries and max_entries are serialized (the other fields are       *)
(* #[serde(skip)]).  The text written is modelled as a sequence of tokens: *)
(* the capacity, then content, timestamp and pinned flag of each entry.    *)
(***************************************************************************)
RECURSIVE entries_to_tokens(_)
entries_to_tokens(es) ==
  IF es = << >> THEN << >>
  ELSE << Head(es).content, Head(es).timestamp, Head(es).pinned >>
         \o entries_to_tokens(Tail(es))

to_string(es, max) == << max >> \o entries_to_tokens(es)

RECURSIVE tokens_to_entries(_)
tokens_to_entries(ts) ==
  IF ts = << >> THEN << >>
  ELSE << [content |-> ts[1], timestamp |-> ts[2], pinned |-> ts[3]] >>
         \o tokens_to_entries(SubSeq(ts, 4, Len(ts)))

\* from_str succeeds on a text made of a capacity and whole entries.
from_str_ok(data) ==
  /\ Len(data) >= 1
  /\ (Len(data) - 1) % 3 = 0

from_str(data) ==
  [entries |-> tokens_to_entries(Tail(data)), max_entries |-> data[1]]

\* save_data: save_path is Some and the write succeeds.
save_data(es, max) == File(to_string(es, max))

\* A variant of load that takes the capacity of a file it cannot parse.
load_keeping_capacity(file) ==
  IF file.exists /\ from_str_ok(file.data)
  THEN from_str(file.data)
  ELSE [entries |-> << >>,
        max_entries |-> IF file.exists /\ Len(file.data) >= 1
                        THEN file.data[1] ELSE DefaultMaxEntries]

\* ClipboardManager::new: the entries and capacity of the data file if it
\* exists and parses, those of ClipboardManager::default otherwise.
load(file) ==
  IF file.exists /\ from_str_ok(file.data)
  THEN from_str(file.data)
  ELSE [entries |-> << >>, max_entries |-> DefaultMaxEntries]

(***************************************************************************)
(* add_entry.                                                              *)
(***************************************************************************)
\* A variant of is_blank that tests the content without trimming it.
is_blank_untrimmed(content) == is_empty(content)

\* content.trim().is_empty()
is_blank(content) == is_empty(trim(content))

\* A variant of is_duplicate that compares with the newest entry alone.
is_duplicate_of_newest(es, content) ==
  es # << >> /\ es[1].content = content

\* self.entries.iter().any(|e| e.content == content)
is_duplicate(es, content) ==
  \E i \in 1..Len(es) : es[i].content = content

\* A variant of insert_front that pushes the new entry at the back.
insert_back(es, content, time) ==
  es \o << ClipboardEntry_new(content, time) >>

\* self.entries.insert(0, ClipboardEntry::new(content))
insert_front(es, content, time) ==
  << ClipboardEntry_new(content, time) >> \o es

\* Vec::remove at the 1-based position p
remove_at(es, p) ==
  SubSeq(es, 1, p - 1) \o SubSeq(es, p + 1, Len(es))

\* A variant of unpinned_positions without the filter on the pinned flag.
all_positions(es) == 1..Len(es)

\* .iter().enumerate().filter(|(_, e)| !e.pinned).map(|(i, _)| i): the
\* positions of the non-pinned entries.
unpinned_positions(es) == { p \in 1..Len(es) : ~es[p].pinned }

\* A variant of last_position that takes the first position.
first_position(S) == CHOOSE p \in S : \A q \in S : p <= q

\* .last() of the positions above.
last_position(S) == CHOOSE p \in S : \A q \in S : q <= p

\* A variant of evict that removes at most one entry (if for while).
evict_once(es, max) ==
  IF Len(es) > max /\ unpinned_positions(es) # {}
  THEN remove_at(es, last_position(unpinned_positions(es)))
  ELSE es

\* while self.entries.len() > self.max_entries { ... }
RECURSIVE evict(_, _)
evict(es, max) ==
  IF Len(es) > max
  THEN IF unpinned_positions(es) # {}
       THEN evict(remove_at(es, last_position(unpinned_positions(es))), max)
       ELSE es
  ELSE es

\* add_entry returns early (nothing inserted, nothing saved).
add_returns_early(es, content) ==
  is_blank(content) \/ is_duplicate(es, content)

\* A variant of add_entry that moves an entry already present to the front.
add_entry_moving_to_front(es, max, content, time) ==
  IF is_blank(content) THEN es
  ELSE IF is_duplicate(es, content)
  THEN LET p == CHOOSE q \in 1..Len(es) : es[q].content = content
       IN  << es[p] >> \o remove_at(es, p)
  ELSE evict(insert_front(es, content, time), max)

\* The entries after add_entry(content) at time `time`.
add_entry(es, max, content, time) ==
  IF add_returns_early(es, content)
  THEN es
  ELSE evict(insert_front(es, content, time), max)

(***************************************************************************)
(* The other mutators.                                                     *)
(***************************************************************************)
\* A variant of remove_entry that removes the last entry for a stale index.
remove_entry_clamped(es, index) ==
  IF index < Len(es) THEN remove_at(es, index + 1)
  ELSE remove_at(es, Len(es))

\* remove_entry(index): the entries afterwards.
remove_entry(es, index) ==
  IF index < Len(es) THEN remove_at(es, index + 1) ELSE es

\* A variant of flip_pinned that sets the flag.
set_pinned(e) == [e EXCEPT !.pinned = TRUE]

\* self.entries[index].pinned = !self.entries[index].pinned
flip_pinned(e) == [e EXCEPT !.pinned = ~e.pinned]

\* toggle_pin(index): the entries afterwards.
toggle_pin(es, index) ==
  IF index < Len(es)
  THEN [es EXCEPT ![index + 1] = flip_pinned(es[index + 1])]
  ELSE es

\* A variant of retain_pinned that keeps the non-pinned entries.
RECURSIVE retain_unpinned(_)
retain_unpinned(es) ==
  IF es = << >> THEN << >>
  ELSE IF ~Head(es).pinned
       THEN << Head(es) >> \o retain_unpinned(Tail(es))
       ELSE retain_unpinned(Tail(es))

\* self.entries.retain(|e| e.pinned)
RECURSIVE retain_pinned(_)
retain_pinned(es) ==
  IF es = << >> THEN << >>
  ELSE IF Head(es).pinned
       THEN << Head(es) >> \o retain_pinned(Tail(es))
       ELSE retain_pinned(Tail(es))

(***************************************************************************)
(* The record of the last operation: its name, its arguments, and the      *)
(* entries, capacity and last-seen clipboard value it started from, and    *)
(* whether the data file was readable then.                                *)
(***************************************************************************)
NoContent == << "NoContent" >>
NoIndex == 0 - 1

\* The data file exists and parses.
readable(file) == file.exists /\ from_str_ok(file.data)

Op(name, content, index) ==
  [ op |-> name, content |-> content, index |-> index,
    entries |-> entries, max_entries |-> max_entries,
    seen |-> current_clipboard, readable |-> readable(disk) ]

\* The data files a first start can find: none, an unreadable one, or one
\* holding an empty history and a capacity.
InitialFiles ==
  {Absent, Corrupt} \cup { save_data(<< >>, n) : n \in CapRange }

(***************************************************************************)
(* Init: the state after ClipboardManager::new on a first start, with an   *)
(* empty history.                                                          *)
(***************************************************************************)
Init ==
  /\ disk \in InitialFiles
  /\ entries = load(disk).entries
  /\ max_entries = load(disk).max_entries
  /\ current_clipboard = EmptyString
  /\ clipboard_ctx \in BOOLEAN
  /\ os_clipboard \in {EmptyString, NonText}
  /\ now = 1
  /\ last = [ op |-> "new", content |-> NoContent, index |-> NoIndex,
              entries |-> entries, max_entries |-> max_entries,
              seen |-> EmptyString, readable |-> readable(disk) ]
  /\ poll_adds = 0
  /\ copied = NoContent
  /\ search_term = EmptyString
  /\ view = NoView

(***************************************************************************)
(* Operations.                                                             *)
(***************************************************************************)
\* The effect of a call of add_entry(content) on entries, disk and clock.
CallAddEntry(content) ==
  /\ entries' = add_entry(entries, max_entries, content, now)
  /\ IF add_returns_early(entries, content)
     THEN UNCHANGED << disk, now >>
     ELSE /\ disk' = save_data(entries', max_entries)
          /\ now' = now + 1

\* add_entry(content), called directly.
AddEntry(content) ==
  /\ now < MaxClock
  /\ CallAddEntry(content)
  /\ last' = Op("add", content, NoIndex)
  /\ UNCHANGED << max_entries, current_clipboard, clipboard_ctx, os_clipboard,
                  poll_adds, copied >>

\* A variant of clipboard_changed without the comparison with the value
\* seen last.
clipboard_nonempty ==
  /\ clipboard_ctx
  /\ os_clipboard # NonText
  /\ ~is_empty(os_clipboard)

\* check_clipboard reads a new, non-empty text.
clipboard_changed ==
  /\ clipboard_ctx
  /\ os_clipboard # NonText
  /\ ~is_empty(os_clipboard)
  /\ os_clipboard # current_clipboard

\* check_clipboard: the watcher's poll.  The record of the operation holds
\* the content add_entry was called with, if it was called.
CheckClipboard ==
  /\ now < MaxClock
  /\ IF clipboard_changed
     THEN /\ current_clipboard' = os_clipboard
          /\ CallAddEntry(os_clipboard)
          /\ last' = Op("poll", os_clipboard, NoIndex)
          /\ poll_adds' = IF poll_adds < MaxPollAdds THEN poll_adds + 1
                                                    ELSE poll_adds
     ELSE /\ last' = Op("poll", NoContent, NoIndex)
          /\ UNCHANGED << entries, current_clipboard, disk, now, poll_adds >>
  /\ UNCHANGED << max_entries, clipboard_ctx, os_clipboard, copied >>

\* A variant of CopyToClipboard that does not record the content copied in
\* current_clipboard.
CopyToClipboardUnrecorded(index, ok) ==
  /\ index < Len(entries)
  /\ IF clipboard_ctx /\ ok
     THEN /\ os_clipboard' = entries[index + 1].content
          /\ last' = Op("copy", entries[index + 1].content, index)
          /\ poll_adds' = IF os_clipboard' = os_clipboard THEN poll_adds ELSE 0
          /\ copied' = entries[index + 1].content
     ELSE /\ UNCHANGED << os_clipboard, poll_adds, copied >>
          /\ last' = Op("copy_failed", entries[index + 1].content, index)
  /\ UNCHANGED << entries, max_entries, current_clipboard, clipboard_ctx,
                  disk, now >>

\* copy_to_clipboard(content) for the content of the entry at index, as the
\* click handlers of update call it; set_contents succeeds (ok) or fails.
CopyToClipboard(index, ok) ==
  /\ index < Len(entries)
  /\ IF clipboard_ctx /\ ok
     THEN /\ os_clipboard' = entries[index + 1].content
          /\ current_clipboard' = entries[index + 1].content
          /\ last' = Op("copy", entries[index + 1].content, index)
          /\ poll_adds' = IF os_clipboard' = os_clipboard THEN poll_adds ELSE 0
          /\ copied' = entries[index + 1].content
     ELSE /\ UNCHANGED << os_clipboard, current_clipboard, poll_adds, copied >>
          /\ last' = Op("copy_failed", entries[index + 1].content, index)
  /\ UNCHANGED << entries, max_entries, clipboard_ctx, disk, now >>

\* remove_entry(index)
RemoveEntry(index) ==
  /\ entries' = remove_entry(entries, index)
  /\ IF index < Len(entries)
     THEN disk' = save_data(entries', max_entries)
     ELSE UNCHANGED disk
  /\ last' = Op("remove", NoContent, index)
  /\ UNCHANGED << max_entries, current_clipboard, clipboard_ctx, os_clipboard,
                  now, poll_adds, copied >>

\* A variant of TogglePin that does not save.
TogglePinUnsaved(index) ==
  /\ entries' = toggle_pin(entries, index)
  /\ last' = Op("toggle_pin", NoContent, index)
  /\ UNCHANGED << max_entries, current_clipboard, clipboard_ctx, os_clipboard,
                  disk, now, poll_adds, copied >>

\* toggle_pin(index)
TogglePin(index) ==
  /\ entries' = toggle_pin(entries, index)
  /\ IF index < Len(entries)
     THEN disk' = save_data(entries', max_entries)
     ELSE UNCHANGED disk
  /\ last' = Op("toggle_pin", NoContent, index)
  /\ UNCHANGED << max_entries, current_clipboard, clipboard_ctx, os_clipboard,
                  now, poll_adds, copied >>

\* The "Clear Unpinned" button of update.
ClearUnpinned ==
  /\ entries' = retain_pinned(entries)
  /\ disk' = save_data(entries', max_entries)
  /\ last' = Op("clear_unpinned", NoContent, NoIndex)
  /\ UNCHANGED << max_entries, current_clipboard, clipboard_ctx, os_clipboard,
                  now, poll_adds, copied >>

\* A variant of SaveSettings that evicts down to the new capacity.
SaveSettingsEvicting(n) ==
  /\ max_entries' = n
  /\ entries' = evict(entries, n)
  /\ disk' = save_data(entries', max_entries')
  /\ last' = Op("set_capacity", NoContent, n)
  /\ UNCHANGED << current_clipboard, clipboard_ctx, os_clipboard, now,
                  poll_adds, copied >>

\* The "Save" button of the settings window of update.
SaveSettings(n) ==
  /\ max_entries' = n
  /\ disk' = save_data(entries, max_entries')
  /\ last' = Op("set_capacity", NoContent, n)
  /\ UNCHANGED << entries, current_clipboard, clipboard_ctx, os_clipboard,
                  now, poll_adds, copied >>

\* Another application puts something on the system clipboard.
OsCopy(v) ==
  /\ v # os_clipboard
  /\ os_clipboard' = v
  /\ last' = Op("os_copy", NoContent, NoIndex)
  /\ poll_adds' = 0
  /\ copied' = NoContent
  /\ UNCHANGED << entries, max_entries, current_clipboard, clipboard_ctx,
                  disk, now >>

\* ClipboardManager::new in a new process: the entries and the capacity come
\* from the data file, the other fields from ClipboardManager::default.
Start(file) ==
  /\ entries' = load(file).entries
  /\ max_entries' = load(file).max_entries
  /\ current_clipboard' = EmptyString
  /\ clipboard_ctx' \in BOOLEAN
  /\ last' = Op("new", NoContent, NoIndex)
  /\ poll_adds' = 0
  /\ copied' = NoContent
  /\ UNCHANGED << os_clipboard, now >>

\* The window is closed (on_exit saves), and the program is started again.
ExitAndStart ==
  /\ disk' = save_data(entries, max_entries)
  /\ Start(disk')

\* The process is killed (on_exit does not run), and the program is started
\* again.
KillAndStart ==
  /\ UNCHANGED disk
  /\ Start(disk)

\* The operations on the history.  The search term and the rows drawn do
\* not enter them: they are explored in SpecView below.
Next ==
  /\ \/ \E c \in Contents : AddEntry(c)
     \/ CheckClipboard
     \/ \E i \in 0..Len(entries), ok \in BOOLEAN : CopyToClipboard(i, ok)
     \/ \E i \in 0..Len(entries) : RemoveEntry(i)
     \/ \E i \in 0..Len(entries) : TogglePin(i)
     \/ ClearUnpinned
     \/ \E n \in CapRange : SaveSettings(n)
     \/ \E v \in OsValues : OsCopy(v)
     \/ ExitAndStart
     \/ KillAndStart
  /\ UNCHANGED << search_term, view >>

Spec == Init /\ [][Next]_vars

(***************************************************************************)
(* The view: filtered_entries and preview, as the central panel of update  *)
(* applies them.  SpecView starts from a history drawn from ViewHistories  *)
(* and draws it for the search terms of Queries.                           *)
(***************************************************************************)
\* The histories drawn: up to MaxViewEntries entries with the contents of
\* SearchContents, and the single entries with the contents of
\* PreviewContents.
RECURSIVE Histories(_, _)
Histories(n, C) ==
  IF n = 0 THEN { << >> }
  ELSE LET H == Histories(n - 1, C)
       IN  H \cup { << ClipboardEntry_new(c, n) >> \o h :
                      c \in C, h \in { g \in H : Len(g) = n - 1 } }

ViewHistories ==
  Histories(MaxViewEntries, SearchContents)
    \cup { << ClipboardEntry_new(c, 1) >> : c \in PreviewContents }

InitView ==
  /\ entries \in ViewHistories
  /\ max_entries = DefaultMaxEntries
  /\ current_clipboard = EmptyString
  /\ clipboard_ctx = TRUE
  /\ os_clipboard = EmptyString
  /\ disk = Absent
  /\ now = 1
  /\ last = [ op |-> "new", content |-> NoContent, index |-> NoIndex,
              entries |-> entries, max_entries |-> max_entries,
              seen |-> EmptyString, readable |-> FALSE ]
  /\ poll_adds = 0
  /\ copied = NoContent
  /\ search_term = EmptyString
  /\ view = NoView

\* One frame of update: the search box holds term, and the central panel
\* draws the rows of filtered_entries with their previews.
Render(term) ==
  /\ search_term' = term
  /\ view' = rows(entries, term)
  /\ UNCHANGED << entries, max_entries, current_clipboard, clipboard_ctx,
                  os_clipboard, disk, now, last, poll_adds, copied >>

NextView == \E term \in Queries : Render(term)

SpecView == InitView /\ [][NextView]_vars

(***************************************************************************)
(* Vocabulary of the properties.  These are written from the meaning of    *)
(* the words, independently of the operators above.                        *)
(***************************************************************************)
Range(es) == { es[i] : i \in 1..Len(es) }

ContentsOf(es) == [ i \in 1..Len(es) |-> es[i].content ]

HasContent(es, c) == \E i \in 1..Len(es) : es[i].content = c

AllWhitespace(c) == \A i \in 1..Len(c) : c[i] \in {" ", "\t", "\n"}

AllPinned(es) == \A i \in 1..Len(es) : es[i].pinned

SomeUnpinned(es) == \E i \in 1..Len(es) : ~es[i].pinned

NumUnpinned(es) == Cardinality({ i \in 1..Len(es) : ~es[i].pinned })

\* es is a subsequence of fs: the elements of es appear in fs in the same
\* order.
RECURSIVE IsSubsequence(_, _)
IsSubsequence(es, fs) ==
  IF es = << >> THEN TRUE
  ELSE IF fs = << >> THEN FALSE
  ELSE IF Head(es) = Head(fs) THEN IsSubsequence(Tail(es), Tail(fs))
  ELSE IsSubsequence(es, Tail(fs))

\* The last operation called add_entry: directly, or from check_clipboard.
AddCalled == last.op \in {"add", "poll"} /\ last.content # NoContent

\* The last operation called add_entry with new, non-blank content.
AddOfNewContent ==
  /\ AddCalled
  /\ ~AllWhitespace(last.content)
  /\ ~HasContent(last.entries, last.content)

(***************************************************************************)
(* C1.  Pin exemption: when the history is at capacity and every entry is  *)
(* pinned, add of new, non-blank content yields a history one longer that  *)
(* holds every pinned original and the new entry.                          *)
(* The code removes the entry it has just inserted instead: it is the last *)
(* non-pinned entry.                                                       *)
(***************************************************************************)
C1_PinExemption ==
  ( /\ AddOfNewContent
    /\ Len(last.entries) >= 1
    /\ Len(last.entries) >= last.max_entries
    /\ AllPinned(last.entries) )
  => /\ Len(entries) = Len(last.entries) + 1
     /\ HasContent(entries, last.content)
     /\ Range(last.entries) \subseteq Range(entries)

(***************************************************************************)
(* C2.  Capacity invariant, as claimed: in every reachable state, if some  *)
(* entry is non-pinned then len(entries) <= max_entries.                   *)
(***************************************************************************)
C2_CapacityAsClaimed ==
  SomeUnpinned(entries) => Len(entries) <= max_entries

(***************************************************************************)
(* C2, amended.  Right after an add or poll that inserts, if some entry is *)
(* non-pinned then len(entries) <= max_entries.  In every state, the       *)
(* length exceeds max_entries only if the last operation was set_capacity, *)
(* or if the length already exceeded the capacity before the last          *)
(* operation and that operation did not increase it.                       *)
(***************************************************************************)
C2_Capacity ==
  /\ (AddOfNewContent /\ SomeUnpinned(entries)) => Len(entries) <= max_entries
  /\ Len(entries) > max_entries
       => \/ last.op = "set_capacity"
          \/ /\ Len(last.entries) > last.max_entries
             /\ Len(entries) <= Len(last.entries)

\* An add of new content into a history that set_capacity had left over
\* capacity brings the length back within the capacity.
C2_Witness ==
  /\ AddOfNewContent
  /\ Len(last.entries) > last.max_entries
  /\ SomeUnpinned(entries)
  /\ Len(entries) <= max_entries

(***************************************************************************)
(* C3.  No two entries of the history have identical content.              *)
(***************************************************************************)
C3_NoDuplicates ==
  \A i, j \in 1..Len(entries) :
    entries[i].content = entries[j].content => i = j

\* add(x); add(x): the second add found x in a history of length 1.
C3_Witness ==
  /\ AddCalled
  /\ Len(last.entries) = 1
  /\ last.entries[1].content = last.content
  /\ Len(entries) = 1

(***************************************************************************)
(* C4.  A pinned entry is never removed by add or poll; an entry that was  *)
(* pinned before an operation is absent after it only if the operation was *)
(* remove of its index.                                                    *)
(***************************************************************************)
C4_PinnedSurvive ==
  \A p \in 1..Len(last.entries) :
    (last.entries[p].pinned /\ ~HasContent(entries, last.entries[p].content))
      => (last.op = "remove" /\ last.index = p - 1)

\* An add evicted an entry while the oldest entry, pinned, stayed.
C4_Witness ==
  /\ AddOfNewContent
  /\ Len(last.entries) >= 2
  /\ last.entries[Len(last.entries)].pinned
  /\ \E p \in 1..Len(last.entries) : ~HasContent(entries, last.entries[p].content)
  /\ HasContent(entries, last.content)
  /\ entries[Len(entries)] = last.entries[Len(last.entries)]

(***************************************************************************)
(* C5.  Eviction order: when an add pushes the length above max_entries,   *)
(* the entries removed are the last-positioned non-pinned entries, as many *)
(* as the excess over max_entries, or all the non-pinned entries if they   *)
(* are fewer; the other entries stay in their order.  With max_entries = 2 *)
(* and no pins, add(a); add(b); add(c) yields exactly [c, b].              *)
(***************************************************************************)
\* The number of entries an add of new content removes.
C5_Removed ==
  LET excess == Len(last.entries) + 1 - last.max_entries
      unpinned == NumUnpinned(last.entries) + 1
  IN  IF excess <= 0 THEN 0
      ELSE IF unpinned < excess THEN unpinned ELSE excess

\* The number of non-pinned entries of es after position p.
C5_UnpinnedAfter(es, p) ==
  Cardinality({ q \in (p + 1)..Len(es) : ~es[q].pinned })

\* The entries of es from position p on that are pinned or have at least k
\* non-pinned entries after them.
RECURSIVE C5_Kept(_, _, _)
C5_Kept(es, k, p) ==
  IF p > Len(es) THEN << >>
  ELSE (IF es[p].pinned \/ C5_UnpinnedAfter(es, p) >= k
        THEN << es[p] >> ELSE << >>) \o C5_Kept(es, k, p + 1)

C5_EvictionOrder ==
  AddOfNewContent =>
    /\ IF NumUnpinned(last.entries) >= C5_Removed
       THEN /\ entries # << >>
            /\ Head(entries).content = last.content
            /\ ~Head(entries).pinned
            /\ Tail(entries) = C5_Kept(last.entries, C5_Removed, 1)
       ELSE entries = C5_Kept(last.entries, C5_Removed, 1)
    /\ ( /\ last.max_entries = 2
         /\ Len(last.entries) = 2
         /\ NumUnpinned(last.entries) = 2 )
       => ContentsOf(entries) = << last.content, last.entries[1].content >>

\* add(a); add(b); add(c) with max_entries = 2 and no pins gave [c, b].
C5_Witness ==
  /\ last.op = "add"
  /\ last.max_entries = 2
  /\ Len(last.entries) = 2
  /\ NumUnpinned(last.entries) = 2
  /\ ~HasContent(last.entries, last.content)
  /\ ContentsOf(entries) = << last.content, last.entries[1].content >>

(***************************************************************************)
(* C6.  Watcher idempotence: while the system clipboard holds the same     *)
(* value, check_clipboard calls add_entry at most once for it; a poll that *)
(* comes after that call changes no entry, also when the entry for the     *)
(* value has been removed in between.                                      *)
(***************************************************************************)
C6_WatcherIdempotence ==
  /\ poll_adds <= 1
  /\ (last.op = "poll" /\ last.content = NoContent) => entries = last.entries

\* A poll after the entry of the value the clipboard still holds was
\* removed: the value is not inserted again.
C6_Witness ==
  /\ last.op = "poll"
  /\ poll_adds = 1
  /\ clipboard_ctx
  /\ os_clipboard \in Contents
  /\ ~AllWhitespace(os_clipboard)
  /\ ~HasContent(entries, os_clipboard)
  /\ Len(entries) < max_entries

(***************************************************************************)
(* C7.  Dedup is a no-op: add of a content that an entry already holds     *)
(* leaves the entries (their order, timestamps and pinned flags) and the   *)
(* capacity as they were.                                                  *)
(***************************************************************************)
C7_DedupNoOp ==
  (AddCalled /\ HasContent(last.entries, last.content))
    => /\ entries = last.entries
       /\ max_entries = last.max_entries

\* The content added is held by an entry that is not at the front, and one
\* of the entries is pinned.
C7_Witness ==
  /\ AddCalled
  /\ Len(last.entries) >= 2
  /\ \E i \in 2..Len(last.entries) : last.entries[i].content = last.content
  /\ \E i \in 1..Len(last.entries) : last.entries[i].pinned
  /\ entries = last.entries

(***************************************************************************)
(* C8.  Empty and whitespace-only content is rejected: an add of it,       *)
(* direct or through poll, changes neither the entries nor the capacity,   *)
(* and no entry of the history ever has blank content.                     *)
(***************************************************************************)
C8_BlankRejected ==
  /\ (AddCalled /\ AllWhitespace(last.content))
       => (entries = last.entries /\ max_entries = last.max_entries)
  /\ \A i \in 1..Len(entries) : ~AllWhitespace(entries[i].content)

\* A poll called add_entry with the whitespace-only text of the clipboard.
C8_Witness ==
  /\ last.op = "poll"
  /\ last.content = <<" ">>
  /\ entries # << >>
  /\ entries = last.entries

(***************************************************************************)
(* C9.  clear_unpinned removes exactly the non-pinned entries and keeps    *)
(* the pinned ones in their order; the capacity is unchanged.              *)
(***************************************************************************)
C9_ClearUnpinned ==
  last.op = "clear_unpinned" =>
    /\ AllPinned(entries)
    /\ \A p \in 1..Len(last.entries) :
         last.entries[p].pinned => last.entries[p] \in Range(entries)
    /\ IsSubsequence(entries, last.entries)
    /\ max_entries = last.max_entries

\* [A(pinned), B, C(pinned)] became [A, C].
C9_Witness ==
  /\ last.op = "clear_unpinned"
  /\ Len(last.entries) = 3
  /\ last.entries[1].pinned
  /\ ~last.entries[2].pinned
  /\ last.entries[3].pinned
  /\ entries = << last.entries[1], last.entries[3] >>

(***************************************************************************)
(* C10.  set_capacity(n) sets max_entries to n and leaves the entries as   *)
(* they were, also when n is smaller than the length.                      *)
(***************************************************************************)
C10_SetCapacity ==
  last.op = "set_capacity" =>
    /\ max_entries = last.index
    /\ entries = last.entries

\* The capacity was set below the length of a history with non-pinned
\* entries.
C10_Witness ==
  /\ last.op = "set_capacity"
  /\ max_entries < last.max_entries
  /\ max_entries < Len(entries)
  /\ SomeUnpinned(entries)

(***************************************************************************)
(* C11.  Stale-index tolerance: remove(index) and toggle_pin(index) with   *)
(* index >= len(entries) leave the entries, their pinned flags and the     *)
(* capacity unchanged; remove with an index in range deletes exactly the   *)
(* entry at that position and keeps the others in order.                   *)
(***************************************************************************)
C11_StaleIndex ==
  /\ ( /\ last.op \in {"remove", "toggle_pin"}
       /\ last.index >= Len(last.entries) )
     => (entries = last.entries /\ max_entries = last.max_entries)
  /\ (last.op = "remove" /\ last.index < Len(last.entries))
     => /\ Len(entries) = Len(last.entries) - 1
        /\ \A p \in 1..Len(entries) :
             entries[p] = IF p <= last.index THEN last.entries[p]
                                             ELSE last.entries[p + 1]
        /\ max_entries = last.max_entries

\* remove with the index one past the end of a history of two entries.
C11_Witness ==
  /\ last.op = "remove"
  /\ Len(last.entries) = 2
  /\ last.index = 2
  /\ entries = last.entries

(***************************************************************************)
(* C12.  Persistence round-trip: after every mutating operation the data   *)
(* file parses to the entries and the capacity in memory, and a fresh      *)
(* instance started at any point has the entries (content, pinned flag,    *)
(* timestamp, order) and the capacity the previous instance had.           *)
(***************************************************************************)
\* The last operation changed the history or the capacity, or saved them.
C12_Mutated ==
  \/ AddOfNewContent
  \/ last.op \in {"remove", "toggle_pin"} /\ last.index < Len(last.entries)
  \/ last.op \in {"clear_unpinned", "set_capacity"}

C12_Persistence ==
  /\ C12_Mutated =>
       /\ disk.exists
       /\ from_str_ok(disk.data)
       /\ from_str(disk.data) =
            [entries |-> entries, max_entries |-> max_entries]
  /\ last.op = "new" =>
       (entries = last.entries /\ max_entries = last.max_entries)

\* A fresh instance loaded three entries with mixed pin states.
C12_Witness ==
  /\ last.op = "new"
  /\ Len(entries) = 3
  /\ entries[1].pinned
  /\ ~entries[2].pinned
  /\ entries[3].pinned

(***************************************************************************)
(* C15.  Newest-first order: the entries are ordered by decreasing         *)
(* insertion time, and no operation changes the relative order of two      *)
(* entries that both remain in the history.                                *)
(***************************************************************************)
\* The position of the entry of content c in es.
C15_Position(es, c) == CHOOSE p \in 1..Len(es) : es[p].content = c

C15_NewestFirst ==
  /\ \A i, j \in 1..Len(entries) :
       i < j => entries[i].timestamp > entries[j].timestamp
  /\ \A i, j \in 1..Len(entries) :
       ( /\ i < j
         /\ HasContent(last.entries, entries[i].content)
         /\ HasContent(last.entries, entries[j].content) )
       => C15_Position(last.entries, entries[i].content)
            < C15_Position(last.entries, entries[j].content)

\* An add put a new entry in front of two older ones.
C15_Witness ==
  /\ AddOfNewContent
  /\ Len(last.entries) = 2
  /\ Len(entries) = 3
  /\ entries[1].content = last.content

(***************************************************************************)
(* C16.  toggle_pin(index) with a valid index flips the pinned flag of the *)
(* entry at that position and changes nothing else; toggle_pin(index)      *)
(* applied again gives back the original history.                          *)
(***************************************************************************)
C16_TogglePin ==
  (last.op = "toggle_pin" /\ last.index < Len(last.entries)) =>
    /\ Len(entries) = Len(last.entries)
    /\ \A p \in 1..Len(entries) :
         /\ entries[p].content = last.entries[p].content
         /\ entries[p].timestamp = last.entries[p].timestamp
         /\ entries[p].pinned =
              IF p = last.index + 1 THEN ~last.entries[p].pinned
                                    ELSE last.entries[p].pinned
    /\ max_entries = last.max_entries
    /\ toggle_pin(entries, last.index) = last.entries

\* A pinned entry in the middle of three was unpinned.
C16_Witness ==
  /\ last.op = "toggle_pin"
  /\ Len(last.entries) = 3
  /\ last.index = 1
  /\ last.entries[2].pinned
  /\ ~entries[2].pinned

(***************************************************************************)
(* C17.  Load failure fallback: an instance started on an absent or        *)
(* unparsable data file has an empty history and the default capacity, and *)
(* a mutation made while the file is unreadable leaves a file that parses  *)
(* to the state in memory.                                                 *)
(***************************************************************************)
C17_LoadFallback ==
  /\ (last.op = "new" /\ ~(disk.exists /\ from_str_ok(disk.data)))
       => (entries = << >> /\ max_entries = 50)
  /\ (C12_Mutated /\ ~last.readable)
       => /\ disk.exists
          /\ from_str_ok(disk.data)
          /\ from_str(disk.data).entries = entries
          /\ from_str(disk.data).max_entries = max_entries

\* The first add of an instance that started on an unparsable file.
C17_Witness ==
  /\ AddOfNewContent
  /\ ~last.readable
  /\ last.entries = << >>
  /\ last.max_entries = 50
  /\ Len(entries) = 1
  /\ disk # Corrupt

(***************************************************************************)
(* C18.  A single add never grows the history past the capacity: the       *)
(* length after add is at most max(length before, max_entries), and an     *)
(* insertion that makes the length exceed max_entries is followed by at    *)
(* least one eviction.                                                     *)
(***************************************************************************)
C18_AddBounded ==
  AddCalled =>
    /\ \/ Len(entries) <= Len(last.entries)
       \/ Len(entries) <= last.max_entries
    /\ (AddOfNewContent /\ Len(last.entries) + 1 > last.max_entries)
         => Len(entries) <= Len(last.entries)

\* An add into a full history of pinned entries: the new entry was evicted.
C18_Witness ==
  /\ AddOfNewContent
  /\ Len(last.entries) >= 1
  /\ Len(last.entries) = last.max_entries
  /\ AllPinned(last.entries)
  /\ entries = last.entries

(***************************************************************************)
(* C19.  A successful copy_to_clipboard(content) sets current_clipboard to *)
(* content and leaves the history unchanged; while the system clipboard    *)
(* holds that content, a poll does not call add_entry, also when the       *)
(* copied entry has been removed.  A failed copy changes neither           *)
(* current_clipboard nor the history.                                      *)
(***************************************************************************)
C19_CopySuppressesPoll ==
  /\ last.op = "copy"
       => (current_clipboard = last.content /\ entries = last.entries)
  /\ last.op = "copy_failed"
       => (current_clipboard = last.seen /\ entries = last.entries)
  /\ (last.op = "poll" /\ copied # NoContent)
       => (last.content = NoContent /\ entries = last.entries)

\* A poll after the copied entry was removed, the clipboard still holding
\* its content.
C19_Witness ==
  /\ last.op = "poll"
  /\ copied # NoContent
  /\ os_clipboard = copied
  /\ ~HasContent(entries, copied)
  /\ clipboard_ctx

(***************************************************************************)
(* C13.  Preview truncation: the preview never splits a multi-byte         *)
(* character; a content of more than 50 characters has as preview its      *)
(* first 47 characters followed by "...", any other content has itself as  *)
(* preview.  Lengths are counted in characters.                            *)
(* The code counts bytes and slices at byte 47.                            *)
(***************************************************************************)
C13_PreviewAsClaimed ==
  view.drawn =>
    \A k \in 1..Len(view.filtered) :
      LET content == entries[view.filtered[k] + 1].content
      IN  /\ ~view.previews[k].panicked
          /\ view.previews[k].text =
               IF Len(content) > 50
               THEN SubSeq(content, 1, 47) \o <<".", ".", ".">>
               ELSE content

(***************************************************************************)
(* C14.  filtered_view(query) returns, in strictly ascending order,        *)
(* exactly the positions whose content contains query as a                 *)
(* case-insensitive substring; an empty query returns every position; the  *)
(* history is not modified.                                                *)
(***************************************************************************)
\* a and b are the same letter, whatever their case.
C14_SameLetter(a, b) ==
  \/ a = b
  \/ {a, b} \in { {"H", "h"}, {"E", "e"}, {"L", "l"}, {"O", "o"}, {"W", "w"} }

\* query occurs in content at some offset, letter by letter.
C14_Occurs(content, query) ==
  \E off \in 0..(Len(content) - Len(query)) :
    \A k \in 1..Len(query) : C14_SameLetter(content[off + k], query[k])

C14_FilteredView ==
  view.drawn =>
    /\ \A k \in 1..Len(view.filtered) :
         /\ view.filtered[k] \in 0..(Len(entries) - 1)
         /\ k > 1 => view.filtered[k - 1] < view.filtered[k]
    /\ \A i \in 0..(Len(entries) - 1) :
         (\E k \in 1..Len(view.filtered) : view.filtered[k] = i)
           <=> C14_Occurs(entries[i + 1].content, search_term)
    /\ search_term = << >> =>
         view.filtered = [ k \in 1..Len(entries) |-> k - 1 ]
    /\ entries = last.entries

\* ["Hello World", "foo", "HELLO"] filtered by "hello" gives positions 0, 2.
C14_Witness ==
  /\ view.drawn
  /\ ContentsOf(entries) =
       << <<"H", "e", "l", "l", "o", " ", "W", "o", "r", "l", "d">>,
          <<"f", "o", "o">>,
          <<"H", "E", "L", "L", "O">> >>
  /\ search_term = <<"h", "e", "l", "l", "o">>
  /\ view.filtered = << 0, 2 >>

====
